---- MODULE Spec2Model ----
(***************************************************************************)
(* Matatu rule engine (src/matatu): the game state of one hand, the        *)
(* legality evaluator legal_plays, the transition function apply_action    *)
(* and the heuristic policy cpu_choose_action.                             *)
(*                                                                         *)
(* The model plays with the first DeckSize cards of CardList and deals     *)
(* HandSize cards to each player; the code plays with 52 cards and deals   *)
(* 7.  Python's None is NoPlayer for a player index, NoSuit for a suit and *)
(* NoCard for a card.                                                      *)
(***************************************************************************)
EXTENDS Integers, Sequences, FiniteSets

VARIABLES stock, discard, players, current_player, cut_suit, pending_draw,
          declared_suit, awaiting_declare, winner,
          pre, last, steps, driver

vars == <<stock, discard, players, current_player, cut_suit, pending_draw,
          declared_suit, awaiting_declare, winner, pre, last, steps,
          driver>>

\* ------------------------------------------------------------- bounds --
DeckSize == 9
HandSize == 2
MaxSteps == 5

\* -------------------------------------------------------------- types --
NoPlayer == -1
NoSuit == "None"
NoCard == [suit |-> "None", rank |-> "None"]

Suit == {"C", "D", "H", "S"}

RANK_ORDER == <<"A", "2", "3", "4", "5", "6", "7", "8", "9", "10", "J", "Q", "K">>

Rank == {RANK_ORDER[i] : i \in 1..Len(RANK_ORDER)}

Card(s, r) == [suit |-> s, rank |-> r]

ActionType == {"PLAY", "DRAW", "PASS", "CUT"}

Action(t, c, d) == [type |-> t, card |-> c, declared_suit |-> d]

card_points(rank) ==
    CASE rank = "3" -> 3
      [] rank = "4" -> 4
      [] rank = "5" -> 5
      [] rank = "6" -> 6
      [] rank = "7" -> 7
      [] rank = "8" -> 8
      [] rank = "9" -> 9
      [] rank = "10" -> 10
      [] rank = "J" -> 11
      [] rank = "Q" -> 12
      [] rank = "K" -> 13
      [] rank = "A" -> 15
      [] rank = "2" -> 20

same_rank(a, b) == a.rank = b.rank

\* The cards of the model's deck, a prefix of this list.
CardList ==
    << Card("C", "7"), Card("C", "3"), Card("C", "2"), Card("D", "2"),
       Card("D", "A"), Card("D", "8"), Card("D", "3"), Card("C", "J"),
       Card("C", "10"), Card("D", "K"), Card("C", "Q"), Card("C", "K") >>

generate_deck == SubSeq(CardList, 1, DeckSize)

Deck == {generate_deck[i] : i \in 1..DeckSize}

\* ------------------------------------------------------------ helpers --
Range(f) == {f[i] : i \in DOMAIN f}

InSeq(c, seq) == \E i \in 1..Len(seq) : seq[i] = c

\* list.remove: drops the first occurrence
Remove(seq, c) ==
    LET i == CHOOSE k \in 1..Len(seq) :
                 seq[k] = c /\ \A j \in 1..(k - 1) : seq[j] # c
    IN  SubSeq(seq, 1, i - 1) \o SubSeq(seq, i + 1, Len(seq))

Front(seq) == SubSeq(seq, 1, Len(seq) - 1)

\* the orders of the positions in S, as sequences
RECURSIVE Orders(_)
Orders(S) ==
    IF S = {} THEN {<<>>}
    ELSE UNION {{<<i>> \o o : o \in Orders(S \ {i})} : i \in S}

\* every order random.shuffle can leave the list in
Shuffles(seq) ==
    {[k \in 1..Len(seq) |-> seq[o[k]]] : o \in Orders(1..Len(seq))}

RECURSIVE hand_points(_)
hand_points(hand) ==
    IF hand = <<>> THEN 0
    ELSE card_points(Head(hand).rank) + hand_points(Tail(hand))

\* a turn pointer that wraps at one player
other_player_wraps_at_one(p) == (p + 1) % 1

other_player(p) == (p + 1) % 2

is_cut_seven(s, c) == c.rank = "7" /\ c.suit = s.cut_suit

\* --------------------------------------------------------- game state --
State ==
    [stock |-> stock, discard |-> discard, players |-> players,
     current_player |-> current_player, cut_suit |-> cut_suit,
     pending_draw |-> pending_draw, declared_suit |-> declared_suit,
     awaiting_declare |-> awaiting_declare, winner |-> winner]

top_discard(s) == s.discard[Len(s.discard)]

\* deal_new_game on an already shuffled deck
deal_new_game(deck) ==
    LET rest == SubSeq(deck, 3, Len(deck))
        dealt(p) == [k \in 1..HandSize |-> rest[2 * (k - 1) + p + 1]]
    IN  [stock |-> SubSeq(rest, 2 * HandSize + 1, Len(rest)),
         discard |-> <<deck[2]>>,
         players |-> [p \in {0, 1} |-> dealt(p)],
         current_player |-> 0,
         cut_suit |-> deck[1].suit,
         pending_draw |-> 0,
         declared_suit |-> NoSuit,
         awaiting_declare |-> NoPlayer,
         winner |-> NoPlayer]

\* The orders rng.shuffle(deck) leaves the deck in that the model starts
\* from: eight orders of the first nine cards, the rest of the deck behind.
ShuffledDecks ==
    LET tail == SubSeq(generate_deck, 10, DeckSize)
        order(ix) == [k \in 1..9 |-> CardList[ix[k]]] \o tail
    IN  { order(<<8, 2, 3, 4, 6, 5, 7, 1, 9>>),
          order(<<2, 7, 6, 8, 5, 4, 1, 3, 9>>),
          order(<<8, 5, 1, 7, 2, 4, 3, 6, 9>>),
          order(<<2, 8, 1, 4, 3, 6, 5, 7, 9>>),
          order(<<8, 1, 9, 4, 2, 5, 6, 7, 3>>),
          order(<<5, 9, 2, 4, 8, 6, 1, 3, 7>>),
          order(<<5, 2, 7, 4, 8, 6, 1, 3, 9>>),
          order(<<8, 3, 1, 7, 9, 2, 4, 5, 6>>) }

\* ----------------------------------------------------------- legality --
\* a legality test that forgets the rank match
is_play_legal_no_rank(s, card) ==
    IF s.awaiting_declare # NoPlayer THEN FALSE
    ELSE IF card.rank = "A" THEN TRUE
    ELSE card.suit = (IF s.declared_suit # NoSuit THEN s.declared_suit
                      ELSE top_discard(s).suit)

is_play_legal(s, card) ==
    IF s.awaiting_declare # NoPlayer THEN FALSE
    ELSE LET top == top_discard(s)
             effective_suit ==
                 IF s.declared_suit # NoSuit THEN s.declared_suit ELSE top.suit
         IN  IF s.pending_draw > 0 /\ top.rank = "2" /\ card.rank = "A"
             THEN FALSE
             ELSE IF same_rank(card, top) THEN TRUE
             ELSE IF card.rank = "A" THEN TRUE
             ELSE card.suit = effective_suit

\* a legal_plays that leaves the Seven of the cut suit in a hand over 25
\* points
legal_plays_keeps_seven(s, player_idx) ==
    IF s.winner # NoPlayer THEN <<>>
    ELSE IF s.awaiting_declare = player_idx THEN <<>>
    ELSE LET hand == s.players[player_idx]
         IN  IF s.pending_draw > 0
             THEN SelectSeq(hand, LAMBDA c : c.rank = "2")
             ELSE SelectSeq(hand, LAMBDA c : is_play_legal(s, c))

legal_plays(s, player_idx) ==
    IF s.winner # NoPlayer THEN <<>>
    ELSE IF s.awaiting_declare = player_idx THEN <<>>
    ELSE LET hand == s.players[player_idx]
         IN  IF s.pending_draw > 0
             THEN SelectSeq(hand, LAMBDA c : c.rank = "2")
             ELSE LET total_points == hand_points(hand)
                      legal == SelectSeq(hand, LAMBDA c : is_play_legal(s, c))
                  IN  IF total_points > 25
                      THEN SelectSeq(legal, LAMBDA c : ~is_cut_seven(s, c))
                      ELSE legal

\* ------------------------------------------------------- apply_action --
\* The outcome of one call: the state it leaves and the exception it
\* raises ("ok" when it returns).
Return(s) == [st |-> s, exc |-> "ok"]

Raise(s, e) == [st |-> s, exc |-> e]

\* a cut whose tie goes to the cutting player
cut_winner_tie_to_cutter(cp, a, b) == IF a <= b THEN cp ELSE other_player(cp)

\* winner of a cut: lowest points wins, a tie goes to the opponent
cut_winner(cp, a, b) == IF a < b THEN cp ELSE other_player(cp)

\* the win check that ends the PLAY branch
win_check(s, cp, card) ==
    IF Len(s.players[cp]) = 0 /\ card.rank # "A"
    THEN [s EXCEPT !.winner = IF s.current_player = 0 THEN 1 ELSE 0]
    ELSE s

apply_play(s, action) ==
    LET cp == s.current_player
        card == action.card
    IN  IF card = NoCard THEN Raise(s, "AssertionError")
        ELSE IF ~InSeq(card, s.players[cp]) THEN Raise(s, "ValueError")
        ELSE
        LET s1 == [s EXCEPT !.players[cp] = Remove(@, card),
                            !.declared_suit = NoSuit,
                            !.discard = Append(@, card)]
            passed == [s1 EXCEPT !.current_player = other_player(cp)]
        IN  CASE card.rank = "2" ->
                   Return(win_check([passed EXCEPT !.pending_draw = @ + 2],
                                    cp, card))
              [] card.rank = "8" -> Return(win_check(s1, cp, card))
              [] card.rank = "J" -> Return(win_check(s1, cp, card))
              [] card.rank = "A" ->
                   Return([s1 EXCEPT !.awaiting_declare = cp])
              [] is_cut_seven(s1, card) ->
                   LET total == hand_points(s1.players[cp])
                       b == hand_points(s1.players[other_player(cp)])
                   IN  IF total <= 25
                       THEN Return([s1 EXCEPT
                                      !.winner = cut_winner(cp, total, b)])
                       ELSE Return(win_check(passed, cp, card))
              [] OTHER -> Return(win_check(passed, cp, card))

\* a reshuffle that leaves the recycled cards on the discard pile as well
reshuffle_keeps_pile(s, shuf) ==
    [s EXCEPT !.stock = IF Len(s.discard) > 1 THEN shuf ELSE <<>>]

\* a reshuffle that keeps the bottom card of the pile instead of its top
reshuffle_keeps_bottom(s, shuf) ==
    [s EXCEPT !.stock = IF Len(s.discard) > 1 THEN shuf ELSE <<>>,
              !.discard = <<s.discard[1]>>]

\* a reshuffle that pops the top card and does not put it back
reshuffle_loses_top(s, shuf) ==
    [s EXCEPT !.stock = IF Len(s.discard) > 1 THEN shuf ELSE <<>>,
              !.discard = <<>>]

\* the reshuffle of the DRAW loop: the discard pile except its top card
\* becomes the stock, in the order shuf that random.shuffle left it in
\* (a pile of the top card alone leaves nothing to shuffle)
reshuffle(s, shuf) ==
    [s EXCEPT !.stock = IF Len(s.discard) > 1 THEN shuf ELSE <<>>,
              !.discard = <<top_discard(s)>>]

\* a DRAW loop that stops at an empty stock without reshuffling
RECURSIVE draw_loop_no_reshuffle(_, _, _, _)
draw_loop_no_reshuffle(s, drawn, n, shuf) ==
    IF n = 0 \/ s.stock = <<>> THEN [st |-> s, drawn |-> drawn, exc |-> "ok"]
    ELSE draw_loop_no_reshuffle([s EXCEPT !.stock = Tail(@)],
                                Append(drawn, Head(s.stock)), n - 1, shuf)

\* the DRAW loop, n cards still to draw; discard.pop() of an empty pile
\* raises IndexError
RECURSIVE draw_loop(_, _, _, _)
draw_loop(s, drawn, n, shuf) ==
    IF n = 0 THEN [st |-> s, drawn |-> drawn, exc |-> "ok"]
    ELSE IF s.stock = <<>> /\ s.discard = <<>>
    THEN [st |-> s, drawn |-> drawn, exc |-> "IndexError"]
    ELSE LET s1 == IF s.stock = <<>> THEN reshuffle(s, shuf) ELSE s
         IN  IF s1.stock = <<>>
             THEN [st |-> s1, drawn |-> drawn, exc |-> "ok"]
             ELSE draw_loop([s1 EXCEPT !.stock = Tail(@)],
                            Append(drawn, Head(s1.stock)), n - 1, shuf)

\* a draw of one card whatever the penalty
to_draw_one(s) == 1

\* the number of cards a DRAW asks for
to_draw(s) == IF s.pending_draw > 0 THEN s.pending_draw ELSE 1

apply_draw(s, shuf) ==
    IF s.awaiting_declare # NoPlayer THEN Raise(s, "ValueError")
    ELSE LET d == draw_loop([s EXCEPT !.pending_draw = 0], <<>>, to_draw(s), shuf)
             cp == s.current_player
         IN  IF d.exc # "ok" THEN Raise(d.st, d.exc)
             ELSE Return([d.st EXCEPT !.players[cp] = @ \o d.drawn,
                                      !.current_player = other_player(cp)])

apply_pass(s) ==
    IF s.awaiting_declare # NoPlayer THEN Raise(s, "ValueError")
    ELSE Return([s EXCEPT !.current_player = other_player(s.current_player)])

\* a cut check that forgets the point threshold
invalid_cut_no_threshold(found, total) == ~found

\* the test that rejects a CUT
invalid_cut(found, total) == ~found \/ total > 25

\* a CUT that moves the cutting card before it validates the cut
apply_cut_moves_first(s) ==
    IF s.awaiting_declare # NoPlayer THEN Raise(s, "ValueError")
    ELSE LET cp == s.current_player
             hand == s.players[cp]
             total == hand_points(hand)
             cut_card == Card(s.cut_suit, "7")
             moved == IF InSeq(cut_card, hand)
                      THEN [s EXCEPT !.players[cp] = Remove(@, cut_card),
                                     !.discard = Append(@, cut_card)]
                      ELSE s
             a == total - card_points(cut_card.rank)
             b == hand_points(s.players[other_player(cp)])
         IN  IF invalid_cut(InSeq(cut_card, hand), total)
             THEN Raise(moved, "ValueError")
             ELSE Return([moved EXCEPT !.winner = cut_winner(cp, a, b)])

apply_cut(s) ==
    IF s.awaiting_declare # NoPlayer THEN Raise(s, "ValueError")
    ELSE LET cp == s.current_player
             hand == s.players[cp]
             total == hand_points(hand)
             has_cut_card == \E i \in 1..Len(hand) : is_cut_seven(s, hand[i])
         IN  IF invalid_cut(has_cut_card, total) THEN Raise(s, "ValueError")
             ELSE LET cut_card == Card(s.cut_suit, "7")
                      a == total - card_points(cut_card.rank)
                      b == hand_points(s.players[other_player(cp)])
                  IN  Return([s EXCEPT !.players[cp] = Remove(@, cut_card),
                                       !.discard = Append(@, cut_card),
                                       !.winner = cut_winner(cp, a, b)])

\* the branch behind "action.type is ActionType.DECLARE"
apply_declare(s, action) ==
    IF s.awaiting_declare # s.current_player THEN Raise(s, "ValueError")
    ELSE IF action.declared_suit = NoSuit THEN Raise(s, "ValueError")
    ELSE LET cp == s.current_player
             s1 == [s EXCEPT !.declared_suit = action.declared_suit,
                             !.awaiting_declare = NoPlayer]
         IN  IF Len(s.players[cp]) = 0
             THEN Return([s1 EXCEPT !.winner = cp])
             ELSE Return([s1 EXCEPT !.current_player = other_player(cp)])

\* apply_action past its winner guard.  An action that is no PLAY, DRAW,
\* PASS or CUT reaches the comparison with ActionType.DECLARE, a member
\* the enumeration does not have: the lookup raises AttributeError.
apply_live(s, action, shuf) ==
    CASE action.type = "PLAY" -> apply_play(s, action)
      [] action.type = "DRAW" -> apply_draw(s, shuf)
      [] action.type = "PASS" -> apply_pass(s)
      [] action.type = "CUT" -> apply_cut(s)
      [] OTHER ->
           IF "DECLARE" \notin ActionType THEN Raise(s, "AttributeError")
           ELSE IF action.type = "DECLARE" THEN apply_declare(s, action)
           ELSE Raise(s, "ValueError")

\* an apply_action without its winner guard
apply_action_unguarded(s, action, shuf) == apply_live(s, action, shuf)

apply_action(s, action, shuf) ==
    IF s.winner # NoPlayer THEN Return(s) ELSE apply_live(s, action, shuf)

\* ------------------------------------------------- cpu_choose_action --
SuitOrder == <<"C", "D", "H", "S">>

choose_suit_by_majority(hand) ==
    LET count(su) == Cardinality({i \in 1..Len(hand) : hand[i].suit = su})
        k == CHOOSE i \in 1..4 :
                 /\ \A j \in 1..4 : count(SuitOrder[j]) <= count(SuitOrder[i])
                 /\ \A j \in 1..(i - 1) : count(SuitOrder[j]) < count(SuitOrder[i])
    IN  SuitOrder[k]

\* the rank values as Python orders the strings
RankValueOrder ==
    <<"10", "2", "3", "4", "5", "6", "7", "8", "9", "A", "J", "K", "Q">>

rank_value_key(rank) == CHOOSE i \in 1..13 : RankValueOrder[i] = rank

\* sorted(plays, key=rank.value)[-1]: the sort is stable
plays_sorted_last(plays) ==
    LET i == CHOOSE k \in 1..Len(plays) :
                 /\ \A j \in 1..Len(plays) :
                        rank_value_key(plays[j].rank) <= rank_value_key(plays[k].rank)
                 /\ \A j \in (k + 1)..Len(plays) :
                        rank_value_key(plays[j].rank) < rank_value_key(plays[k].rank)
    IN  plays[i]

specials_order == <<"2", "8", "J", "A">>

\* the card the scan over specials_order returns, NoCard when it finds none
first_special(plays) ==
    LET found(r) == \E i \in 1..Len(plays) : plays[i].rank = r
    IN  IF \E k \in 1..4 : found(specials_order[k])
        THEN LET k == CHOOSE m \in 1..4 :
                          /\ found(specials_order[m])
                          /\ \A j \in 1..(m - 1) : ~found(specials_order[j])
                 sel == SelectSeq(plays, LAMBDA c : c.rank = specials_order[k])
             IN  sel[1]
        ELSE NoCard

\* The action the policy returns, or the exception it raises: building
\* Action(ActionType.DECLARE, ...) looks up a member ActionType lacks.
cpu_choose_action(s) ==
    LET idx == s.current_player
        hand == s.players[idx]
        plays == legal_plays(s, idx)
        total_points == hand_points(hand)
        has_cut_seven == \E i \in 1..Len(hand) : is_cut_seven(s, hand[i])
        twos == SelectSeq(plays, LAMBDA c : c.rank = "2")
        act(a) == [act |-> a, exc |-> "ok"]
    IN  IF s.awaiting_declare = idx
        THEN IF "DECLARE" \in ActionType
             THEN act(Action("DECLARE", NoCard, choose_suit_by_majority(hand)))
             ELSE [act |-> Action("NONE", NoCard, NoSuit), exc |-> "AttributeError"]
        ELSE IF has_cut_seven /\ total_points <= 25
        THEN act(Action("CUT", NoCard, NoSuit))
        ELSE IF plays = <<>> THEN act(Action("DRAW", NoCard, NoSuit))
        ELSE IF s.pending_draw > 0 /\ twos # <<>>
        THEN act(Action("PLAY", twos[1], NoSuit))
        ELSE IF first_special(plays) # NoCard
        THEN act(Action("PLAY", first_special(plays), NoSuit))
        ELSE act(Action("PLAY", plays_sorted_last(plays), NoSuit))

\* ------------------------------------------------------ state machine --
\* pre is the state before the last call of apply_action, last the call
\* (its action, the player to move, the exception raised), steps the
\* number of calls and of refused inputs so far, driver the program that
\* makes the calls: "cli", "gui", or "none" for any caller of the engine.
Deal ==
    \E deck \in ShuffledDecks :
        LET s == deal_new_game(deck)
        IN  /\ stock = s.stock
            /\ discard = s.discard
            /\ players = s.players
            /\ current_player = s.current_player
            /\ cut_suit = s.cut_suit
            /\ pending_draw = s.pending_draw
            /\ declared_suit = s.declared_suit
            /\ awaiting_declare = s.awaiting_declare
            /\ winner = s.winner
            /\ pre = s
            /\ last = [type |-> "DEAL", card |-> NoCard, declared_suit |-> NoSuit,
                       by |-> NoPlayer, exc |-> "ok"]
            /\ steps = 0

Init == Deal /\ driver = "none"

\* one call apply_action(state, action)
Apply(action, shuf) ==
    /\ steps < MaxSteps
    /\ LET r == apply_action(State, action, shuf)
       IN  /\ stock' = r.st.stock
           /\ discard' = r.st.discard
           /\ players' = r.st.players
           /\ current_player' = r.st.current_player
           /\ cut_suit' = r.st.cut_suit
           /\ pending_draw' = r.st.pending_draw
           /\ declared_suit' = r.st.declared_suit
           /\ awaiting_declare' = r.st.awaiting_declare
           /\ winner' = r.st.winner
           /\ last' = [type |-> action.type, card |-> action.card,
                       declared_suit |-> action.declared_suit,
                       by |-> current_player, exc |-> r.exc]
    /\ pre' = State
    /\ steps' = steps + 1
    /\ driver' = driver

\* the cards a caller plays: each card of the hand of the player to move,
\* a card that is not in it, and no card
PlayInputs == Range(players[current_player]) \cup {top_discard(State), NoCard}

DeclareInputs == {generate_deck[i].suit : i \in 1..DeckSize} \cup {NoSuit}

Play == \E c \in PlayInputs : Apply(Action("PLAY", c, NoSuit), <<>>)

\* the orders a DRAW in state s can find its reshuffle in: the loop
\* reshuffles when the stock runs out before to_draw cards are drawn
ShuffleInputs(s) ==
    IF Len(s.stock) < to_draw(s) THEN Shuffles(Front(s.discard)) ELSE {<<>>}

Draw == \E shuf \in ShuffleInputs(State) :
            Apply(Action("DRAW", NoCard, NoSuit), shuf)

Pass == Apply(Action("PASS", NoCard, NoSuit), <<>>)

Cut == Apply(Action("CUT", NoCard, NoSuit), <<>>)

Declare == \E d \in DeclareInputs : Apply(Action("DECLARE", NoCard, d), <<>>)

Next == Play \/ Draw \/ Pass \/ Cut \/ Declare

Spec == Init /\ [][Next]_vars

\* ------------------------------------------------------------ drivers --
\* The two programs that play a hand: the human is player 0, the policy
\* player 1.  An input a driver refuses without calling apply_action
\* leaves the state as it is and is recorded in last.
Refuse(type, card, exc) ==
    /\ steps < MaxSteps
    /\ pre' = State
    /\ last' = [type |-> type, card |-> card, declared_suit |-> NoSuit,
                by |-> current_player, exc |-> exc]
    /\ steps' = steps + 1
    /\ UNCHANGED <<stock, discard, players, current_player, cut_suit,
                   pending_draw, declared_suit, awaiting_declare, winner,
                   driver>>

\* "cannot finish on 8 or J": the test both drivers make before a Play
last_card_rule(s, p, card) ==
    Len(s.players[p]) = 1 /\ card.rank \in {"8", "J"}

\* a policy turn that applies the policy's choice as it is
cpu_turn_action_no_fallback(s) ==
    cpu_choose_action(s)

\* the action a policy turn applies: the policy's choice, or a Draw in its
\* place when the choice would finish on an Eight or a Jack
cpu_turn_action(s) ==
    LET a == cpu_choose_action(s)
    IN  IF /\ a.exc = "ok"
           /\ a.act.type = "PLAY"
           /\ last_card_rule(s, 1, a.act.card)
        THEN [act |-> Action("DRAW", NoCard, NoSuit), exc |-> "ok"]
        ELSE a

\* the suits the human can name
SuitInputs == DeclareInputs \ {NoSuit}

\* the card tokens the human types: each card of the hand and one card
\* that is not in it
CardInputs == Range(players[0]) \cup {top_discard(State)}

\* the turn loop of the command line ends with the hand, or with the
\* process when an exception leaves a turn (a refused cut is caught)
cli_running ==
    /\ driver = "cli"
    /\ winner = NoPlayer
    /\ last.exc = "ok" \/ (last.type = "CUT" /\ last.by = 0)

player_turn ==
    /\ cli_running
    /\ current_player = 0
    /\ LET plays == legal_plays(State, 0)
           draw == \E shuf \in ShuffleInputs(State) :
                       Apply(Action("DRAW", NoCard, NoSuit), shuf)
       IN  IF plays = <<>>
           THEN draw
           ELSE \/ draw
                \/ Apply(Action("CUT", NoCard, NoSuit), <<>>)
                \/ \E card \in CardInputs :
                       IF InSeq(card, players[0]) /\ InSeq(card, plays)
                       THEN IF card.rank = "A"
                            THEN \E suit \in SuitInputs :
                                     Apply(Action("PLAY", card, suit), <<>>)
                            ELSE IF last_card_rule(State, 0, card)
                            THEN Refuse("REFUSED", card, "ok")
                            ELSE Apply(Action("PLAY", card, NoSuit), <<>>)
                       ELSE Refuse("INVALID", card, "ok")

cpu_turn ==
    /\ cli_running
    /\ current_player = 1
    /\ LET a == cpu_turn_action(State)
       IN  IF a.exc # "ok"
           THEN Refuse("CHOOSE", NoCard, a.exc)
           ELSE \E shuf \in ShuffleInputs(State) : Apply(a.act, shuf)

\* the window takes clicks while the hand has no winner
gui_live == driver = "gui" /\ winner = NoPlayer

\* a card button is enabled when the card is a legal play
on_play ==
    /\ gui_live
    /\ current_player = 0
    /\ \E card \in Range(legal_plays(State, 0)) :
           IF last_card_rule(State, 0, card)
           THEN Refuse("REFUSED", card, "ok")
           ELSE Apply(Action("PLAY", card, NoSuit), <<>>)

on_declare ==
    /\ gui_live
    /\ current_player = 0
    /\ awaiting_declare = 0
    /\ \E suit \in SuitInputs : Apply(Action("DECLARE", NoCard, suit), <<>>)

\* the Draw and Cut buttons are disabled while the human owes a suit
on_draw ==
    /\ gui_live
    /\ current_player = 0
    /\ awaiting_declare # 0
    /\ \E shuf \in ShuffleInputs(State) :
           Apply(Action("DRAW", NoCard, NoSuit), shuf)

on_cut ==
    /\ gui_live
    /\ current_player = 0
    /\ awaiting_declare # 0
    /\ Apply(Action("CUT", NoCard, NoSuit), <<>>)

\* scheduled by refresh_ui, which a step of the policy that raised did
\* not reach
cpu_step ==
    /\ gui_live
    /\ current_player = 1
    /\ ~(last.by = 1 /\ last.exc # "ok")
    /\ LET a == cpu_turn_action(State)
       IN  IF a.exc # "ok"
           THEN Refuse("CHOOSE", NoCard, a.exc)
           ELSE \E shuf \in ShuffleInputs(State) : Apply(a.act, shuf)

InitDriver == Deal /\ driver \in {"cli", "gui"}

NextDriver ==
    \/ player_turn
    \/ cpu_turn
    \/ on_play
    \/ on_declare
    \/ on_draw
    \/ on_cut
    \/ cpu_step

SpecDriver == InitDriver /\ [][NextDriver]_vars

\* ------------------------------------------------------------- claims --
\* the last call was made in a live hand (no winner yet) and returned
Accepted(type) ==
    last.type = type /\ last.exc = "ok" /\ pre.winner = NoPlayer

\* the cards in play in state s, pile after pile
CardsOf(s) == s.stock \o s.discard \o s.players[0] \o s.players[1]


\* C1: every Play of a non-Ace card that leaves the acting player's hand
\* empty, and is not a Seven of the cut suit resolved by the auto-cut, sets
\* winner to the acting player, whatever the rank (Two, Eight, Jack, ...).
C1_EmptyHandWins ==
    ( /\ Accepted("PLAY")
      /\ last.card.rank # "A"
      /\ players[last.by] = <<>>
      /\ ~is_cut_seven(pre, last.card) )
    => winner = last.by

\* C2: a player who plays an Ace as their only card keeps the turn with no
\* winner set by the Play, and their following Declare(suit) succeeds and
\* makes them the winner.
C2_LastAceThenDeclare ==
    /\ ( /\ Accepted("PLAY")
         /\ last.card.rank = "A"
         /\ players[last.by] = <<>> )
       => ( /\ current_player = last.by
            /\ winner = NoPlayer
            /\ awaiting_declare = last.by )
    /\ ( /\ last.type = "DECLARE"
         /\ last.declared_suit # NoSuit
         /\ pre.winner = NoPlayer
         /\ pre.awaiting_declare = last.by
         /\ pre.players[last.by] = <<>>
         /\ top_discard(pre).rank = "A" )
       => ( last.exc = "ok" /\ winner = last.by )

\* C3: while no winner is set and awaiting_declare is the player to move,
\* apply_action fails for every Play, for Draw, for Pass and for Cut, and
\* accepts a Declare.
C3_OnlyDeclareWhilePending ==
    (winner = NoPlayer /\ awaiting_declare = current_player)
    => /\ \A c \in PlayInputs :
              apply_action(State, Action("PLAY", c, NoSuit), <<>>).exc # "ok"
       /\ \A shuf \in ShuffleInputs(State) :
              apply_action(State, Action("DRAW", NoCard, NoSuit), shuf).exc # "ok"
       /\ apply_action(State, Action("PASS", NoCard, NoSuit), <<>>).exc # "ok"
       /\ apply_action(State, Action("CUT", NoCard, NoSuit), <<>>).exc # "ok"
       /\ \A d \in DeclareInputs \ {NoSuit} :
              apply_action(State, Action("DECLARE", NoCard, d), <<>>).exc = "ok"

\* C4: in every state reached from a deal by apply_action calls, returned
\* or failed, the cards of stock, discard and the two hands are pairwise
\* distinct, are the deck without the burned cut card, and are the cards
\* that were there before the call.
C4_Conservation ==
    LET cards == CardsOf(State)
    IN  /\ Len(cards) = DeckSize - 1
        /\ \A i, j \in 1..Len(cards) : i # j => cards[i] # cards[j]
        /\ Range(cards) \subseteq Deck
        /\ Range(cards) = Range(CardsOf(pre))

\* a Draw that reshuffled the discard pile and drew from the recycled stock
C4_Witness ==
    /\ Accepted("DRAW")
    /\ Len(pre.discard) > 1
    /\ Len(discard) = 1
    /\ \E c \in Range(players[last.by]) : c \in Range(pre.discard)

\* C5: once winner is set, every call of apply_action returns without
\* failing and leaves every field of the state as it was.
C5_TerminalNoOp ==
    (last.type # "DEAL" /\ pre.winner # NoPlayer)
    => (last.exc = "ok" /\ State = pre)

\* a Play of a card of the hand, a Draw and a Declare in a won hand
C5_Witness ==
    /\ pre.winner # NoPlayer
    /\ \/ last.type = "PLAY" /\ InSeq(last.card, pre.players[last.by])
       \/ last.type = "DRAW" /\ pre.stock # <<>>
       \/ last.type = "DECLARE"

\* C6: in every state with no winner the policy returns an action for the
\* player to move, and apply_action accepts it.
C6_PolicyActionAccepted ==
    winner = NoPlayer
    => LET c == cpu_choose_action(State)
       IN  /\ c.exc = "ok"
           /\ \A shuf \in ShuffleInputs(State) :
                  apply_action(State, c.act, shuf).exc = "ok"

\* a Cut that succeeded or a Play of the Seven of the cut suit whose
\* auto-cut triggered
CutResolved ==
    \/ Accepted("CUT")
    \/ /\ Accepted("PLAY")
       /\ is_cut_seven(pre, last.card)
       /\ hand_points(players[last.by]) <= 25

\* C7: after a Cut or a triggered auto-cut the winner is the acting player
\* iff the points of their hand without the Seven are strictly less than
\* the points of the opponent's hand; otherwise, a tie included, the winner
\* is the opponent.
C7_CutWinner ==
    CutResolved
    => LET a == hand_points(pre.players[last.by]) - card_points("7")
           b == hand_points(pre.players[other_player(last.by)])
       IN  /\ (a < b) => winner = last.by
           /\ (a >= b) => winner = other_player(last.by)

\* a Cut between two hands of equal points, won by the opponent
C7_Witness ==
    /\ Accepted("CUT")
    /\ hand_points(players[0]) = hand_points(players[1])
    /\ winner = other_player(last.by)

\* C8: in a live hand, when the player to move holds the Seven of the cut
\* suit and their hand is over 25 points, the Seven is not in legal_plays
\* and Cut fails leaving the state unchanged; Cut also fails without the
\* Seven or with a declaration pending, and succeeds otherwise.
C8_CutEligibility ==
    winner = NoPlayer
    => LET hand == players[current_player]
           seven == Card(cut_suit, "7")
           total == hand_points(hand)
           r == apply_action(State, Action("CUT", NoCard, NoSuit), <<>>)
       IN  /\ (InSeq(seven, hand) /\ total > 25)
              => /\ ~InSeq(seven, legal_plays(State, current_player))
                 /\ r.exc # "ok" /\ r.st = State
           /\ (~InSeq(seven, hand) \/ awaiting_declare # NoPlayer)
              => (r.exc # "ok" /\ r.st = State)
           /\ (InSeq(seven, hand) /\ total <= 25 /\ awaiting_declare = NoPlayer)
              => r.exc = "ok"

\* a Cut that failed on a hand over 25 points holding the Seven of the cut
\* suit, a card that matches the top of the discard pile
C8_Witness ==
    /\ last.type = "CUT" /\ last.exc = "ValueError"
    /\ winner = NoPlayer /\ awaiting_declare = NoPlayer
    /\ InSeq(Card(cut_suit, "7"), players[current_player])
    /\ hand_points(players[current_player]) > 25
    /\ is_play_legal(State, Card(cut_suit, "7"))

\* C9: in a live hand with pending_draw > 0, legal_plays holds only Twos,
\* the only calls apply_action accepts are a Play of a Two and a Draw, and
\* the policy returns nothing else.
C9_PenaltyOnlyTwoOrDraw ==
    /\ (winner = NoPlayer /\ pending_draw > 0)
       => /\ \A c \in Range(legal_plays(State, current_player)) : c.rank = "2"
          /\ LET c == cpu_choose_action(State)
             IN  c.exc = "ok"
                 => \/ c.act.type = "DRAW"
                    \/ c.act.type = "PLAY" /\ c.act.card.rank = "2"
    /\ (last.type # "DEAL" /\ last.exc = "ok" /\ pre.winner = NoPlayer
        /\ pre.pending_draw > 0)
       => \/ last.type = "DRAW"
          \/ last.type = "PLAY" /\ last.card.rank = "2"

\* C10: a Play of a Two that apply_action accepts in a live hand adds
\* exactly 2 to pending_draw and passes the turn; a Draw it accepts in a
\* live hand leaves pending_draw = 0 and, when pending_draw cards are
\* available in stock plus the discard pile below its top, appends that
\* many cards to the drawing player's hand.
C10_TwoStacking ==
    /\ (Accepted("PLAY") /\ last.card.rank = "2")
       => /\ pending_draw = pre.pending_draw + 2
          /\ current_player = other_player(last.by)
    /\ (Accepted("DRAW") /\ pre.pending_draw > 0)
       => /\ pending_draw = 0
          /\ (pre.pending_draw <= Len(pre.stock) + Len(pre.discard) - 1)
             => Len(players[last.by]) =
                    Len(pre.players[last.by]) + pre.pending_draw

\* two Twos in a row from pending_draw = 0, then a Draw of the 4 cards
C10_Witness ==
    /\ Accepted("DRAW")
    /\ pre.pending_draw = 4
    /\ pending_draw = 0
    /\ Len(pre.discard) >= 3
    /\ pre.discard[Len(pre.discard)].rank = "2"
    /\ pre.discard[Len(pre.discard) - 1].rank = "2"
    /\ Len(players[last.by]) = Len(pre.players[last.by]) + 4

\* C11: after a Play of a non-Ace card declared_suit is unset; a Declare(s)
\* made by the player whose declaration is pending leaves declared_suit = s,
\* and a Draw, a Pass or the Play of another Ace leaves a declared suit as
\* it was.
C11_DeclaredSuit ==
    /\ (Accepted("PLAY") /\ last.card.rank # "A") => declared_suit = NoSuit
    /\ ( /\ last.type = "DECLARE"
         /\ last.declared_suit # NoSuit
         /\ pre.winner = NoPlayer
         /\ pre.awaiting_declare = last.by )
       => declared_suit = last.declared_suit
    /\ ( /\ pre.declared_suit # NoSuit
         /\ \/ Accepted("DRAW")
            \/ Accepted("PASS")
            \/ Accepted("PLAY") /\ last.card.rank = "A" )
       => declared_suit = pre.declared_suit

\* the suit or rank match of the legality rules
C12_Matches(s, c) ==
    \/ c.rank = top_discard(s).rank
    \/ c.rank = "A"
    \/ c.suit = (IF s.declared_suit # NoSuit THEN s.declared_suit
                 ELSE top_discard(s).suit)

\* the rule-3 cards of a hand, the Seven of the cut suit left out of a hand
\* over 25 points
C12_Matching(s, p) ==
    SelectSeq(s.players[p],
              LAMBDA c : /\ C12_Matches(s, c)
                         /\ ~(hand_points(s.players[p]) > 25 /\ is_cut_seven(s, c)))

C12_Twos(s, p) == SelectSeq(s.players[p], LAMBDA c : c.rank = "2")

\* C12 as stated: legal_plays is empty if winner is set or awaiting_declare
\* is the player; else the Twos of the hand if pending_draw > 0; else the
\* cards that match the top discard by rank, are Aces or match the
\* effective suit, without the Seven of the cut suit over 25 points; in
\* hand order, and every card is in the hand.
C12_LegalPlaysAsStated ==
    \A p \in {0, 1} :
        /\ legal_plays(State, p) =
              IF winner # NoPlayer \/ awaiting_declare = p THEN <<>>
              ELSE IF pending_draw > 0 THEN C12_Twos(State, p)
              ELSE C12_Matching(State, p)
        /\ Range(legal_plays(State, p)) \subseteq Range(players[p])

\* C12 amended: as stated, but with no penalty pending legal_plays is also
\* empty while a declaration is pending for the other player.
C12_LegalPlays ==
    \A p \in {0, 1} :
        /\ legal_plays(State, p) =
              IF winner # NoPlayer \/ awaiting_declare = p THEN <<>>
              ELSE IF pending_draw > 0 THEN C12_Twos(State, p)
              ELSE IF awaiting_declare # NoPlayer THEN <<>>
              ELSE C12_Matching(State, p)
        /\ Range(legal_plays(State, p)) \subseteq Range(players[p])

\* a player with matching cards in hand while the other player's
\* declaration is pending and no penalty is
C12_Witness ==
    /\ winner = NoPlayer /\ pending_draw = 0
    /\ \E p \in {0, 1} :
          /\ awaiting_declare = other_player(p)
          /\ C12_Matching(State, p) # <<>>
          /\ legal_plays(State, p) = <<>>

\* C13: a call of apply_action that fails leaves every field of the state,
\* the player to move included, as it was before the call.
C13_FailedCallNoChange == last.exc # "ok" => State = pre

\* a Cut that failed on a hand holding the Seven of the cut suit
C13_Witness ==
    /\ last.type = "CUT" /\ last.exc # "ok"
    /\ InSeq(Card(cut_suit, "7"), players[last.by])
    /\ current_player = last.by

\* the cards the last Draw appended to the drawing player's hand
Drawn ==
    SubSeq(players[last.by], Len(pre.players[last.by]) + 1, Len(players[last.by]))

\* C14: a Draw leaves the top discard card as it was; one that runs out of
\* stock leaves the discard pile as that top card alone and moves the cards
\* below it into the stock, from which the rest of the draw comes; one that
\* does not run out of stock leaves the pile untouched.
C14_Reshuffle ==
    Accepted("DRAW")
    => /\ top_discard(State) = top_discard(pre)
       /\ IF Len(pre.stock) < to_draw(pre)
          THEN /\ discard = <<top_discard(pre)>>
               /\ Range(stock) \cup Range(Drawn) =
                      Range(pre.stock) \cup Range(Front(pre.discard))
               /\ Len(stock) + Len(Drawn) =
                      Len(pre.stock) + Len(pre.discard) - 1
               /\ SubSeq(Drawn, 1, Len(pre.stock)) = pre.stock
          ELSE discard = pre.discard

\* a Draw that found the stock empty and drew from the recycled pile
C14_Witness ==
    /\ Accepted("DRAW")
    /\ pre.stock = <<>>
    /\ Len(pre.discard) > 1
    /\ Len(discard) = 1
    /\ Drawn # <<>>
    /\ Range(Drawn) \subseteq Range(pre.discard)

\* C17: two runs that start from the same seeded deal and apply the same
\* actions pass through the same states: the state a Draw leaves, a Draw
\* that reshuffles included, is fixed by the state it starts from.
C17_Deterministic ==
    winner = NoPlayer
    => \A s1, s2 \in ShuffleInputs(State) :
           apply_action(State, Action("DRAW", NoCard, NoSuit), s1) =
           apply_action(State, Action("DRAW", NoCard, NoSuit), s2)

\* C18: in every state reached from a deal the discard pile is not empty,
\* and its top card is a card of the deck.
C18_DiscardNonEmpty == discard # <<>> /\ top_discard(State) \in Deck

\* a Draw that reshuffled a pile of several cards and left its top card
C18_Witness ==
    /\ Accepted("DRAW")
    /\ Len(pre.stock) < to_draw(pre)
    /\ Len(pre.discard) >= 2
    /\ discard = <<top_discard(pre)>>

C20_TurnAfterPlay ==
    (Accepted("PLAY") /\ winner = NoPlayer)
    => CASE last.card.rank \in {"8", "J"} ->
                 current_player = last.by /\ awaiting_declare = pre.awaiting_declare
         [] last.card.rank = "A" ->
                 current_player = last.by /\ awaiting_declare = last.by
         [] OTHER ->
                 current_player = 1 - last.by /\ awaiting_declare = pre.awaiting_declare

\* a Play of the Seven of the cut suit that left the hand over 25 points:
\* no auto-cut, the turn passes
C20_Witness ==
    /\ Accepted("PLAY")
    /\ is_cut_seven(pre, last.card)
    /\ hand_points(players[last.by]) > 25
    /\ winner = NoPlayer
    /\ current_player = 1 - last.by

\* the place of a rank in RANK_ORDER
C15_Ordinal(rank) == CHOOSE i \in 1..Len(RANK_ORDER) : RANK_ORDER[i] = rank

\* the policy is at its last step: no declaration to make, no Cut to take,
\* legal plays and none of them a Two, an Eight, a Jack or an Ace
C15_LastStep ==
    LET hand == players[current_player]
        plays == legal_plays(State, current_player)
    IN  /\ winner = NoPlayer
        /\ awaiting_declare # current_player
        /\ ~(InSeq(Card(cut_suit, "7"), hand) /\ hand_points(hand) <= 25)
        /\ plays # <<>>
        /\ \A i \in 1..Len(plays) : plays[i].rank \notin {"2", "8", "J", "A"}

\* C15: at its last step the policy plays a legal card whose rank is the
\* highest of the legal cards in the order ace < 2 < ... < 10 < jack <
\* queen < king.
C15_PlaysHighestRank ==
    C15_LastStep
    => LET plays == legal_plays(State, current_player)
           a == cpu_choose_action(State)
       IN  /\ a.exc = "ok" /\ a.act.type = "PLAY"
           /\ InSeq(a.act.card, plays)
           /\ \A i \in 1..Len(plays) :
                  C15_Ordinal(plays[i].rank) <= C15_Ordinal(a.act.card.rank)

\* the last step was a turn of the policy whose choice was a Play of an
\* Eight or a Jack from a one-card hand
C16_PolicyChoseLastCard ==
    /\ last.type # "DEAL"
    /\ last.by = 1
    /\ pre.winner = NoPlayer
    /\ pre.current_player = 1
    /\ cpu_choose_action(pre).exc = "ok"
    /\ cpu_choose_action(pre).act.type = "PLAY"
    /\ last_card_rule(pre, 1, cpu_choose_action(pre).act.card)

\* C16: in a hand run by the command line or the window no Play of an
\* Eight or a Jack reaches apply_action from a one-card hand: the human's
\* attempt is refused with the state unchanged, the policy's choice is
\* replaced by a Draw, and so no hand is emptied by an Eight or a Jack.
C16_NoLastEightOrJack ==
    /\ (last.type = "PLAY" /\ last.card \in Deck /\ last.card.rank \in {"8", "J"})
           => /\ Len(pre.players[last.by]) # 1
              /\ (last.exc = "ok" /\ pre.winner = NoPlayer)
                     => players[last.by] # <<>>
    /\ last.type = "REFUSED" => State = pre
    /\ C16_PolicyChoseLastCard => last.type = "DRAW" /\ last.exc = "ok"

\* the human, down to a Jack or an Eight that is a legal play, has tried
\* to play it
C16_Witness ==
    /\ last.type = "REFUSED"
    /\ last.by = 0
    /\ pre.players[0] = <<last.card>>
    /\ last.card.rank \in {"8", "J"}
    /\ InSeq(last.card, legal_plays(pre, 0))

\* the policy, down to an Eight or a Jack that it chose to play, drew
C16_PolicyWitness ==
    /\ C16_PolicyChoseLastCard
    /\ last.type = "DRAW"
    /\ Len(players[1]) > 1

\* C21: in a live hand Declare(suit) is accepted exactly when
\* awaiting_declare is the player to move and a suit is supplied; it then
\* sets declared_suit to the suit, clears awaiting_declare and, when the
\* declaring hand is not empty, passes the turn to the other player.  Every
\* other Declare in a live hand fails.
C21_DeclareContract ==
    (last.type = "DECLARE" /\ pre.winner = NoPlayer)
    => IF pre.awaiting_declare = pre.current_player /\ last.declared_suit # NoSuit
       THEN /\ last.exc = "ok"
            /\ declared_suit = last.declared_suit
            /\ awaiting_declare = NoPlayer
            /\ pre.players[last.by] # <<>>
                   => current_player = other_player(last.by)
       ELSE last.exc # "ok"

\* C22: in every state reached through apply_action, a set
\* awaiting_declare is the player to move and the top of the discard pile
\* is an Ace: no accepted action moves the turn or covers the Ace while the
\* declaration is pending.
C22_PendingDeclaration ==
    awaiting_declare # NoPlayer
    => /\ awaiting_declare = current_player
       /\ top_discard(State).rank = "A"

\* some action of the player to move is accepted by apply_action
C23_SomeActionAccepted ==
    \/ \E c \in PlayInputs :
           apply_action(State, Action("PLAY", c, NoSuit), <<>>).exc = "ok"
    \/ \E shuf \in ShuffleInputs(State) :
           apply_action(State, Action("DRAW", NoCard, NoSuit), shuf).exc = "ok"
    \/ apply_action(State, Action("PASS", NoCard, NoSuit), <<>>).exc = "ok"
    \/ apply_action(State, Action("CUT", NoCard, NoSuit), <<>>).exc = "ok"
    \/ \E d \in DeclareInputs :
           apply_action(State, Action("DECLARE", NoCard, d), <<>>).exc = "ok"

\* some Declare is accepted and leaves no declaration pending
C23_DeclarationResolvable ==
    \E d \in SuitInputs :
        LET r == apply_action(State, Action("DECLARE", NoCard, d), <<>>)
        IN  r.exc = "ok" /\ r.st.awaiting_declare = NoPlayer

\* the turn the policy takes from the state returns a state
C23_PolicyTurnReturns ==
    LET a == cpu_turn_action(State)
    IN  /\ a.exc = "ok"
        /\ \E shuf \in ShuffleInputs(State) :
               apply_action(State, a.act, shuf).exc = "ok"

\* the human has an input that the driver passes on and apply_action
\* accepts: a legal card the last-card rule lets through, the Draw, or in
\* the window the Declare
C23_HumanTurnReturns ==
    LET plays == legal_plays(State, 0)
        draws == \E shuf \in ShuffleInputs(State) :
                     apply_action(State, Action("DRAW", NoCard, NoSuit), shuf).exc = "ok"
    IN  IF driver = "cli"
        THEN draws
        ELSE \/ \E card \in Range(plays) : ~last_card_rule(State, 0, card)
             \/ awaiting_declare # 0 /\ draws
             \/ awaiting_declare = 0 /\ C23_DeclarationResolvable

\* C23: the hand never gets stuck.  In every state with no winner some
\* action of the player to move is accepted by apply_action, a pending
\* declaration (also one of a player whose hand is empty) can be resolved
\* by a Declare, and the driver's loop can take its next step.
C23_NeverStuck ==
    winner = NoPlayer
    => /\ C23_SomeActionAccepted
       /\ awaiting_declare # NoPlayer => C23_DeclarationResolvable
       /\ IF current_player = 0
          THEN C23_HumanTurnReturns
          ELSE C23_PolicyTurnReturns

\* the last call was an accepted Play of the Seven of the cut suit, taken
\* from the legal plays of the player to move
C24_PlayedLegalSeven ==
    /\ Accepted("PLAY")
    /\ is_cut_seven(pre, last.card)
    /\ last.by = pre.current_player
    /\ InSeq(last.card, legal_plays(pre, pre.current_player))

\* C24: a Play of the Seven of the cut suit out of legal_plays always
\* takes the auto-cut (the hand left is not over 25 points, the turn is not
\* passed on) and sets the winner that a Cut from the same state sets; in
\* both outcomes the Seven is on top of the discard pile.
C24_AutoCut ==
    C24_PlayedLegalSeven
    => LET cut == apply_action(pre, Action("CUT", NoCard, NoSuit), <<>>)
           a == hand_points(players[last.by])
           b == hand_points(players[other_player(last.by)])
       IN  /\ a <= 25
           /\ winner = cut_winner(last.by, a, b)
           /\ current_player = pre.current_player
           /\ cut.exc = "ok"
           /\ winner = cut.st.winner
           /\ top_discard(State) = last.card
           /\ top_discard(cut.st) = last.card
           /\ players = cut.st.players

\* the Seven of the cut suit played from the legal plays, the hand lost to
\* the opponent's lower points
C24_Witness ==
    /\ C24_PlayedLegalSeven
    /\ winner = other_player(last.by)
    /\ hand_points(players[winner]) < hand_points(players[last.by])

\* the same Play winning the hand
C24_WitnessWon ==
    /\ C24_PlayedLegalSeven
    /\ winner = last.by
====
